---- MODULE Spec2Model ----
(***************************************************************************)
(* A model of the polyhedra-viewer operation engine:                       *)
(*   - OpPair and combineOps   (src/src/math/operations/operationPairs.ts) *)
(*   - CompositeForme          (src/src/math/formes/CompositeForme.ts)     *)
(* The operations are pure functions of a graph (or of a Specs and a       *)
(* geometry); every specification below draws those inputs from bounded    *)
(* sets in its initial states and applies the operations in its actions.   *)
(***************************************************************************)
EXTENDS Integers, Sequences, FiniteSets, TLC

VARIABLES
    graph,     \* OpPair.graph: the materialised sequence of graph entries
    opArgs,    \* combineOps' opArgs: a sequence of one-way operations
    specs,     \* the Composite Specs handed to CompositeForme.create
    geom,      \* the Polyhedron handed to CompositeForme.create
    forme,     \* the variant CompositeForme.create built ("none" before)
    memo,      \* the forme's memoized capInnerVertIndices and how often it was computed
    solid,     \* the Specs of the solid the prism operations are applied to
    trail,     \* the operations applied to reach solid, with the Specs they started from
    count,     \* a cut/paste Count
    inputs,    \* OpPair.inputs: the middle and which movers are defined
    call,      \* the last call made: the operation's name and its arguments
    ret        \* what that call returned or threw

vars == <<graph, opArgs, specs, geom, forme, memo, solid, trail, count, inputs, call, ret>>

(***************************************************************************)
(* Bounds of the model.                                                    *)
(***************************************************************************)
\* longest OpPair graph drawn
MaxLen == 2

\* most graph entries the sub-operations of a combined operation hold together
MaxCombined == 2

\* faces of the polyhedra drawn
NumFaces == 3

\* largest count of augmentations, diminishments or gyrations drawn
MaxCount == 1

\* the longest sequence of prism operations applied to one solid
MaxSteps == 2

\* longest graph of a pair whose apply is followed through the geometry
MaxPairLen == 1

\* the longest sequence of successful inc and dec calls on one Count
MaxCalls == 5

(***************************************************************************)
(* Values.                                                                 *)
(***************************************************************************)
Sides == {"left", "right"}

oppositeSide(side) == IF side = "left" THEN "right" ELSE "left"

\* An optional value (x?: T) is <<>> when absent and <<x>> when present.
Absent == <<>>
Some(x) == <<x>>

\* PolyhedronSpecs: a shape and a twist direction.  equals is structural;
\* equivalent ignores the twist.
SpecsSet ==
    { [shape |-> "A", twist |-> "left"],
      [shape |-> "A", twist |-> "right"],
      [shape |-> "B", twist |-> "none"] }

equals(s1, s2) == s1 = s2

equivalent(s1, s2) == s1.shape = s2.shape

\* Twist and oppositeTwist of "types"
Twists == {"left", "right"}

oppositeTwist(t) == IF t = "left" THEN "right" ELSE "left"

\* Option objects: functions from field names to values; {} is EmptyOpts.
EmptyOpts == [k \in {} |-> "undefined"]

TwistOpts(t) == [k \in {"twist"} |-> t]

\* the option objects callers pass; "undefined" is the value of a field that
\* is present and undefined
CallOptObjs ==
    {EmptyOpts, TwistOpts("left"), TwistOpts("right"), TwistOpts("undefined")}

\* lodash isMatch(object, source): object holds every field of source with
\* the same value
isMatch(object, source) ==
    \A k \in DOMAIN source : k \in DOMAIN object /\ object[k] = source[k]

\* lodash pickBy(object): the fields of object whose value is truthy
pickBy(object) ==
    [k \in {j \in DOMAIN object : object[j] # "undefined"} |-> object[k]]

\* GraphOpts<L, R> as the graphs of this repository declare them: a twist on
\* the left and the opposite twist on the right
GraphOptions ==
    {[left |-> TwistOpts(t), right |-> TwistOpts(oppositeTwist(t))] : t \in Twists}

\* GraphEntry<Specs, L, R>; options is optional.  An entry is a transition
\* between two different Specs.
GraphEntries ==
    {e \in [left : SpecsSet, right : SpecsSet,
            options : {Absent} \cup {Some(o) : o \in GraphOptions}] :
        e.left # e.right}

\* entry.options?.[side]
entryOption(entry, side) ==
    IF entry.options = Absent THEN Absent ELSE Some(entry.options[1][side])

\* x ?? {}
orEmpty(x) == IF x = Absent THEN EmptyOpts ELSE x[1]

RECURSIVE SeqsUpTo(_, _)
SeqsUpTo(S, n) ==
    IF n = 0 THEN {<<>>}
    ELSE LET shorter == SeqsUpTo(S, n - 1)
         IN  shorter \cup {Append(s, x) : s \in {t \in shorter : Len(t) = n - 1}, x \in S}

\* a returned value / a thrown error
Return(v) == [threw |-> FALSE, val |-> v]

Throw(msg) == [threw |-> TRUE, val |-> msg]

(***************************************************************************)
(* OpPair.  An entry object of this.graph is referred to by its index in   *)
(* the graph: two entries with the same fields are still two entries.      *)
(***************************************************************************)
\* Array.filter over the graph from index i: the indices kept, in order
RECURSIVE filterFrom(_, _, _, _)
filterFrom(g, i, side, sp) ==
    IF i > Len(g) THEN <<>>
    ELSE IF equals(g[i][side], sp) THEN <<i>> \o filterFrom(g, i + 1, side, sp)
    ELSE filterFrom(g, i + 1, side, sp)

\* OpPair.getEntries
getEntries(g, side, sp) == filterFrom(g, 1, side, sp)

\* findPred comparing the Specs with equivalent instead of equals
findPred_equivalent(entry, side, sp, opts) ==
    /\ equivalent(entry[side], sp)
    /\ isMatch(orEmpty(entryOption(entry, side)), orEmpty(opts))

\* findPred with the arguments of isMatch exchanged
findPred_swapped(entry, side, sp, opts) ==
    /\ equals(entry[side], sp)
    /\ isMatch(orEmpty(opts), orEmpty(entryOption(entry, side)))

\* the predicate findEntry hands to Array.find
findPred(entry, side, sp, opts) ==
    /\ equals(entry[side], sp)
    /\ isMatch(orEmpty(entryOption(entry, side)), orEmpty(opts))

\* Array.find: scan from index i, return the first entry satisfying the
\* predicate, undefined when there is none
RECURSIVE findFrom(_, _, _, _, _)
findFrom(g, i, side, sp, opts) ==
    IF i > Len(g) THEN Absent
    ELSE IF findPred(g[i], side, sp, opts) THEN Some(i)
    ELSE findFrom(g, i + 1, side, sp, opts)

\* OpPair.findEntry
findEntry(g, side, sp, opts) == findFrom(g, 1, side, sp, opts)

\* OpPair.getEntry
getEntry(g, side, sp, opts) ==
    LET entry == findEntry(g, side, sp, opts)
    IN  IF entry = Absent THEN Throw("Could not find entry") ELSE Return(entry[1])

\* OpPair.hasOptions
hasOptions(g, side, sp) == Len(getEntries(g, side, sp)) > 1

\* allOptions yielding the options of the other side
allOptions_otherSide(g, side, sp) ==
    LET es == getEntries(g, side, sp)
    IN  [k \in 1..Len(es) |-> orEmpty(entryOption(g[es[k]], oppositeSide(side)))]

\* OpPair.allOptions: the sequence the generator yields
allOptions(g, side, sp) ==
    LET es == getEntries(g, side, sp)
    IN  [k \in 1..Len(es) |-> orEmpty(entryOption(g[es[k]], side))]

\* OpPair.canApplyTo
canApplyTo(g, side, sp) == findEntry(g, side, sp, Absent) # Absent

\* getOpposite returning the entry's Specs of the side asked from
getOpposite_sameSide(g, side, sp, opts) ==
    LET e == getEntry(g, side, sp, opts)
    IN  IF e.threw THEN e ELSE Return(g[e.val][side])

\* OpPair.getOpposite
getOpposite(g, side, sp, opts) ==
    LET e == getEntry(g, side, sp, opts)
    IN  IF e.threw THEN e ELSE Return(g[e.val][oppositeSide(side)])

\* OpPair.apply: the entry is resolved first; the poses, the end geometry and
\* the alignment are computed only after.  calls lists the collaborators
\* called, in order; val is the entry used, its end Specs and the options the
\* poses are computed with.
apply(g, side, sp, opts) ==
    LET e == getEntry(g, side, sp, opts)
    IN  IF e.threw THEN [threw |-> TRUE, val |-> e.val, calls |-> <<>>]
        ELSE [threw |-> FALSE,
              val |-> [entry |-> e.val,
                       endSpecs |-> g[e.val][oppositeSide(side)],
                       options |-> IF g[e.val].options = Absent
                                   THEN [left |-> EmptyOpts, right |-> EmptyOpts]
                                   ELSE g[e.val].options[1]],
              calls |-> <<"createForme", "getPose", "getGeometry", "createForme",
                          "getPose", "alignPolyhedron">>]

\* toDirected taking start and end from the same side
toDirected_sameEnd(side, g) ==
    [i \in 1..Len(g) |->
        [start |-> g[i][side],
         end |-> g[i][side],
         options |-> entryOption(g[i], side)]]

\* toDirected(side, graph): the one-way graph of a side
toDirected(side, g) ==
    [i \in 1..Len(g) |->
        [start |-> g[i][side],
         end |-> g[i][oppositeSide(side)],
         options |-> entryOption(g[i], side)]]

\* makeOperation(side, op): the one-way operation of a side of the pair;
\* pair is the OpPair's graph, graph the one-way graph
makeOperation(side, g) == [side |-> side, pair |-> g, graph |-> toDirected(side, g)]

\* makeOperation(side, op).apply
opApply(op, sp, opts) == apply(op.pair, op.side, sp, opts)

\* makeOperation(side, op).toGraphOpts
toGraphOpts(op, sp, opts) == opts

(***************************************************************************)
(* combineOps                                                              *)
(***************************************************************************)
\* pickBy(graphOpts), of options that may have been omitted
pickByGiven(opts) == IF opts = Absent THEN EmptyOpts ELSE pickBy(opts[1])

\* dispatchPred comparing the start with equals instead of equivalent
dispatchPred_equals(op, j, sp, opts) ==
    /\ equals(op.graph[j].start, sp)
    /\ isMatch(orEmpty(op.graph[j].options),
               pickByGiven(toGraphOpts(op, op.graph[j].start, opts)))

\* the test doWithRightForme makes on one entry of a sub-operation's graph
dispatchPred(op, j, sp, opts) ==
    /\ equivalent(op.graph[j].start, sp)
    /\ isMatch(orEmpty(op.graph[j].options),
               pickByGiven(toGraphOpts(op, op.graph[j].start, opts)))

\* the inner loop of doWithRightForme: the first entry of the sub-operation's
\* graph, from index j, that passes the test; 0 when none does
RECURSIVE scanGraph(_, _, _, _)
scanGraph(op, j, sp, opts) ==
    IF j > Len(op.graph) THEN 0
    ELSE IF dispatchPred(op, j, sp, opts) THEN j
    ELSE scanGraph(op, j + 1, sp, opts)

\* the outer loop of doWithRightForme, from sub-operation k: what the
\* callback is called with, Absent when the loop ends without a call
RECURSIVE scanOps(_, _, _, _)
scanOps(ops, k, sp, opts) ==
    IF k > Len(ops) THEN Absent
    ELSE LET j == scanGraph(ops[k], 1, sp, opts)
         IN  IF j # 0
             THEN Some([op |-> k, entry |-> j,
                        forme |-> ops[k].graph[j].start,
                        graphOpts |-> toGraphOpts(ops[k], ops[k].graph[j].start, opts)])
             ELSE scanOps(ops, k + 1, sp, opts)

\* combineOps.doWithRightForme, before the callback
doWithRightForme(ops, sp, opts) == scanOps(ops, 1, sp, opts)

\* combineOps(opArgs).apply: the sub-operation's apply on the forme re-wrapped
\* on the entry's start, with the caller's options
combinedApply(ops, sp, opts) ==
    LET d == doWithRightForme(ops, sp, opts)
    IN  IF d = Absent
        THEN [threw |-> TRUE, val |-> "Could not find matching graph entry",
              calls |-> <<>>, dispatch |-> Absent]
        ELSE LET r == opApply(ops[d[1].op], d[1].forme, opts)
             IN  [threw |-> r.threw, val |-> r.val, calls |-> r.calls, dispatch |-> d]

\* combineOps(opArgs).toGraphOpts
combinedToGraphOpts(ops, sp, opts) ==
    LET d == doWithRightForme(ops, sp, opts)
    IN  IF d = Absent
        THEN [threw |-> TRUE, val |-> "Could not find matching graph entry",
              dispatch |-> Absent]
        ELSE [threw |-> FALSE, val |-> d[1].graphOpts, dispatch |-> d]

\* combineOps(opArgs).graph: the sub-operations' graphs, one after the other
RECURSIVE combinedGraphFrom(_, _)
combinedGraphFrom(ops, k) ==
    IF k > Len(ops) THEN <<>> ELSE ops[k].graph \o combinedGraphFrom(ops, k + 1)

combinedGraph(ops) == combinedGraphFrom(ops, 1)


(***************************************************************************)
(* Composite Specs and the Polyhedron, as CompositeForme reads them.       *)
(***************************************************************************)
Families == {"augmentedPrism", "augmentedClassical", "diminishedSolid", "gyrateSolid"}

Counts == 0..MaxCount

\* Composite: the family of its source shape ("none": a source of no family),
\* the counts of its modifications, and what the formes ask of the source:
\* sourcePrism().isSecondary(), sourceClassical().isIcosahedral(),
\* .isTetrahedral(), .isRegular()
CompositeSpecs ==
    [family : Families \cup {"none"},
     augmented : Counts, diminished : Counts, gyrate : Counts,
     secondary : BOOLEAN, icosahedral : BOOLEAN, tetrahedral : BOOLEAN, regular : BOOLEAN]

specsIsAugmentedPrism(sp) == sp.family = "augmentedPrism"

specsIsAugmentedClassical(sp) == sp.family = "augmentedClassical"

specsIsDiminishedSolid(sp) == sp.family = "diminishedSolid"

specsIsGyrateSolid(sp) == sp.family = "gyrateSolid"

isAugmented(sp) == sp.augmented > 0

isDiminished(sp) == sp.diminished > 0

isMono(sp) == sp.augmented + sp.diminished + sp.gyrate = 1

\* the side counts the formes tell apart: triangles, squares, pentagons
SideCounts == {3, 4, 5}

Faces == 1..NumFaces

\* unit normals: 1 and -1 are opposite directions, 2 is a third direction
Normals == {1, -1, 2}

\* isInverse of math/geom
isInverse(n1, n2) == n1 = -n2

\* FaceLike.numSides of face i of the polyhedron
numSides(g, i) == g.faces[i].numSides

\* FaceLike.adjacentFaces of face i: the faces across its edges
adjacentFaces(g, i) == g.faces[i].adj

\* Polyhedron.largestFace().numSides
largestNumSides(g) ==
    CHOOSE n \in {numSides(g, i) : i \in Faces} : \A i \in Faces : numSides(g, i) <= n

\* Cap.boundary().adjacentFaces(): the faces across the boundary's edges
boundaryAdjacentFaces(cap) == [k \in 1..Len(cap.boundary) |-> cap.boundary[k].twin]

\* getSingle of utils: the only element of the array, an error otherwise
getSingle(array) ==
    IF Len(array) = 1 THEN Return(array[1]) ELSE Throw("Expected a single element")

\* Array.filter: the indices kept, in array order
RECURSIVE ascending(_)
ascending(S) ==
    IF S = {} THEN <<>>
    ELSE LET m == CHOOSE x \in S : \A y \in S : x <= y
         IN  <<m>> \o ascending(S \ {m})

(***************************************************************************)
(* CompositeForme.  A forme is its Specs and its Polyhedron; the variant   *)
(* is the class create instantiated.                                       *)
(***************************************************************************)
\* create returning a GyrateSolidForme for a diminished solid and the reverse
create_swapped(sp) ==
    IF specsIsAugmentedPrism(sp) THEN Return("augmentedPrism")
    ELSE IF specsIsAugmentedClassical(sp) THEN Return("augmentedClassical")
    ELSE IF specsIsDiminishedSolid(sp) THEN Return("gyrateSolid")
    ELSE IF specsIsGyrateSolid(sp) THEN Return("diminishedSolid")
    ELSE Throw("Invalid composite specs")

\* CompositeForme.create: the variant built, by the first predicate that holds
create(sp) ==
    IF specsIsAugmentedPrism(sp) THEN Return("augmentedPrism")
    ELSE IF specsIsAugmentedClassical(sp) THEN Return("augmentedClassical")
    ELSE IF specsIsDiminishedSolid(sp) THEN Return("diminishedSolid")
    ELSE IF specsIsGyrateSolid(sp) THEN Return("gyrateSolid")
    ELSE Throw("Invalid composite specs")

\* CompositeForme.isAugmentedClassical / isAugmentedPrism / isDiminishedSolid /
\* isGyrateSolid: each asks the Specs
formeIs(sp, family) ==
    CASE family = "augmentedClassical" -> specsIsAugmentedClassical(sp)
      [] family = "augmentedPrism" -> specsIsAugmentedPrism(sp)
      [] family = "diminishedSolid" -> specsIsDiminishedSolid(sp)
      [] family = "gyrateSolid" -> specsIsGyrateSolid(sp)

\* caps(): the polyhedron's caps; AugmentedClassicalForme keeps only the first
\* one for an augmented regular tetrahedron.  The result lists indices into
\* geom.caps().
caps(variant, sp, g) ==
    IF variant = "augmentedClassical" /\ sp.tetrahedral /\ sp.regular
    THEN <<1>>
    ELSE [k \in 1..Len(g.caps) |-> k]

\* CompositeForme.capInnerVertIndices
capInnerVertIndices(variant, sp, g) ==
    UNION {g.caps[caps(variant, sp, g)[k]].inner : k \in 1..Len(caps(variant, sp, g))}

\* lodash once without its memory: the function runs at every call
once_recompute(m, value) ==
    [cached |-> Some(value), computations |-> m.computations + 1]

\* lodash once around capInnerVertIndices: the first call computes the set and
\* keeps it, later calls return what was kept
once(m, value) ==
    IF m.cached # Absent THEN m
    ELSE [cached |-> Some(value), computations |-> m.computations + 1]

\* the memo of a new forme
NoMemo == [cached |-> Absent, computations |-> 0]

\* CompositeForme.sourceVertices: the vertices kept, by index
sourceVertices(variant, sp, g) ==
    {v \in g.vertices : v \notin capInnerVertIndices(variant, sp, g)}

\* CompositeForme.isSourceFace
isSourceFace(variant, sp, g, face) ==
    \A v \in face.vertices : v \notin capInnerVertIndices(variant, sp, g)

\* isMainFace without the test for source faces
isMainFace_anyFace(variant, sp, g, face) ==
    IF sp.regular THEN TRUE
    ELSE numSides(g, face.index) # 3

\* AugmentedClassicalForme.isMainFace
isMainFace(variant, sp, g, face) ==
    IF ~isSourceFace(variant, sp, g, face) THEN FALSE
    ELSE IF sp.regular THEN TRUE
    ELSE numSides(g, face.index) # 3

\* AugmentedClassicalForme.isMinorFace
isMinorFace(variant, sp, g, face) ==
    isSourceFace(variant, sp, g, face) /\ ~isMainFace(variant, sp, g, face)

\* AugmentedClassicalForme.isCapTop
isCapTop(variant, sp, g, face) ==
    IF sp.regular THEN FALSE
    ELSE \A v \in face.vertices : v \in capInnerVertIndices(variant, sp, g)

\* AugmentedPrismForme.isSideFace
isSideFace(g, face) == numSides(g, face.index) = 4

\* DiminishedSolidForme.isDiminishedFace / GyrateSolidForme.isDiminishedFace
isDiminishedFace(sp, g, i) ==
    isDiminished(sp) /\ numSides(g, i) = largestNumSides(g)

\* diminishedFaces(): indices into geom.faces
diminishedFaces(sp, g) == ascending({i \in Faces : isDiminishedFace(sp, g, i)})

\* isGyrate looking at the first edge of the boundary only
isGyrate_firstEdge(g, cap) ==
    (numSides(g, cap.boundary[1].face) = 4) = (numSides(g, cap.boundary[1].twin) = 4)

\* GyrateSolidForme.isGyrate
isGyrate(g, cap) ==
    \A e \in 1..Len(cap.boundary) :
        (numSides(g, cap.boundary[e].face) = 4) = (numSides(g, cap.boundary[e].twin) = 4)

\* GyrateSolidForme.gyrateCaps: indices into geom.caps()
gyrateCaps(g) == ascending({k \in 1..Len(g.caps) : isGyrate(g, g.caps[k])})

\* no cap of the forme has the face across an edge of its boundary
noCapBorders(variant, sp, g, face) ==
    \A c \in 1..Len(caps(variant, sp, g)) :
        LET across == boundaryAdjacentFaces(g.caps[caps(variant, sp, g)[c]])
        IN  \A e \in 1..Len(across) : across[e] # face.index

\* DiminishedSolidForme.canAugment ignoring that the solid is augmented
canAugment_ignoreAugmented(variant, sp, g, face) ==
    CASE variant = "augmentedPrism" ->
            IF ~isSideFace(g, face) THEN FALSE ELSE noCapBorders(variant, sp, g, face)
      [] variant = "augmentedClassical" ->
            IF ~isMainFace(variant, sp, g, face) THEN FALSE
            ELSE noCapBorders(variant, sp, g, face)
      [] variant = "diminishedSolid" ->
            \/ isDiminishedFace(sp, g, face.index)
            \/ \A f \in adjacentFaces(g, face.index) : numSides(g, f) = 5
      [] variant = "gyrateSolid" -> isDiminishedFace(sp, g, face.index)

\* canAugment of the augmented variants without the test of the caps
canAugment_noCapTest(variant, sp, g, face) ==
    CASE variant = "augmentedPrism" -> isSideFace(g, face)
      [] variant = "augmentedClassical" -> isMainFace(variant, sp, g, face)
      [] variant = "diminishedSolid" ->
            IF isAugmented(sp) THEN FALSE
            ELSE \/ isDiminishedFace(sp, g, face.index)
                 \/ \A f \in adjacentFaces(g, face.index) : numSides(g, f) = 5
      [] variant = "gyrateSolid" -> isDiminishedFace(sp, g, face.index)

\* canAugment of the four variants
canAugment(variant, sp, g, face) ==
    CASE variant = "augmentedPrism" ->
            IF ~isSideFace(g, face) THEN FALSE ELSE noCapBorders(variant, sp, g, face)
      [] variant = "augmentedClassical" ->
            IF ~isMainFace(variant, sp, g, face) THEN FALSE
            ELSE noCapBorders(variant, sp, g, face)
      [] variant = "diminishedSolid" ->
            IF isAugmented(sp) THEN FALSE
            ELSE \/ isDiminishedFace(sp, g, face.index)
                 \/ \A f \in adjacentFaces(g, face.index) : numSides(g, f) = 5
      [] variant = "gyrateSolid" -> isDiminishedFace(sp, g, face.index)

\* hasAlignment of the four variants
hasAlignment(variant, sp) ==
    CASE variant = "augmentedPrism" -> isMono(sp) /\ sp.secondary
      [] variant = "augmentedClassical" -> isMono(sp) /\ sp.icosahedral
      [] OTHER -> isMono(sp)

\* a cap or a face of the polyhedron, by its index
CapRef(k) == [kind |-> "cap", index |-> k]

FaceRef(i) == [kind |-> "face", index |-> i]

\* Base.normal()
normal(g, base) ==
    IF base.kind = "cap" THEN g.caps[base.index].normal ELSE g.faces[base.index].normal

\* modifications() of the four variants
modifications(variant, sp, g) ==
    CASE variant = "diminishedSolid" ->
            [k \in 1..Len(diminishedFaces(sp, g)) |-> FaceRef(diminishedFaces(sp, g)[k])]
      [] variant = "gyrateSolid" ->
            [k \in 1..Len(gyrateCaps(g)) |-> CapRef(gyrateCaps(g)[k])]
            \o [k \in 1..Len(diminishedFaces(sp, g)) |-> FaceRef(diminishedFaces(sp, g)[k])]
      [] OTHER ->
            [k \in 1..Len(caps(variant, sp, g)) |-> CapRef(caps(variant, sp, g)[k])]

\* alignment with "para" and "meta" exchanged
alignment_swapped(variant, sp, g, base) ==
    IF ~hasAlignment(variant, sp) THEN Return("undefined")
    ELSE LET single == getSingle(modifications(variant, sp, g))
         IN  IF single.threw THEN single
             ELSE IF isInverse(normal(g, base), normal(g, single.val))
                  THEN Return("meta") ELSE Return("para")

\* CompositeForme.alignment
alignment(variant, sp, g, base) ==
    IF ~hasAlignment(variant, sp) THEN Return("undefined")
    ELSE LET single == getSingle(modifications(variant, sp, g))
         IN  IF single.threw THEN single
             ELSE IF isInverse(normal(g, base), normal(g, single.val))
                  THEN Return("para") ELSE Return("meta")

(***************************************************************************)
(* Specification of one OpPair: the constructor has materialised a graph;  *)
(* each action is one call of a method.                                    *)
(***************************************************************************)
Graphs == SeqsUpTo(GraphEntries, MaxLen)

CallOpts == {Absent} \cup {Some(o) : o \in CallOptObjs}

NoCall == [op |-> "none"]

NoRet == [threw |-> FALSE, val |-> "none"]

Init ==
    /\ graph \in Graphs
    /\ opArgs = <<>>
    /\ specs = "none"
    /\ geom = "none"
    /\ forme = "none"
    /\ memo = NoMemo
    /\ solid = "none"
    /\ trail = <<>>
    /\ count = 0
    /\ inputs = "none"
    /\ call = NoCall
    /\ ret = NoRet

FindEntry ==
    \E side \in Sides, sp \in SpecsSet, opts \in CallOpts :
        /\ call = NoCall
        /\ call' = [op |-> "findEntry", side |-> side, specs |-> sp, opts |-> opts]
        /\ ret' = Return(findEntry(graph, side, sp, opts))
        /\ UNCHANGED <<graph, opArgs, specs, geom, forme, memo, solid, trail, count, inputs>>

GetEntry ==
    \E side \in Sides, sp \in SpecsSet, opts \in CallOpts :
        /\ call = NoCall
        /\ call' = [op |-> "getEntry", side |-> side, specs |-> sp, opts |-> opts]
        /\ ret' = getEntry(graph, side, sp, opts)
        /\ UNCHANGED <<graph, opArgs, specs, geom, forme, memo, solid, trail, count, inputs>>

HasOptions ==
    \E side \in Sides, sp \in SpecsSet :
        /\ call = NoCall
        /\ call' = [op |-> "hasOptions", side |-> side, specs |-> sp]
        /\ ret' = Return(hasOptions(graph, side, sp))
        /\ UNCHANGED <<graph, opArgs, specs, geom, forme, memo, solid, trail, count, inputs>>

AllOptions ==
    \E side \in Sides, sp \in SpecsSet :
        /\ call = NoCall
        /\ call' = [op |-> "allOptions", side |-> side, specs |-> sp]
        /\ ret' = Return(allOptions(graph, side, sp))
        /\ UNCHANGED <<graph, opArgs, specs, geom, forme, memo, solid, trail, count, inputs>>

CanApplyTo ==
    \E side \in Sides, sp \in SpecsSet :
        /\ call = NoCall
        /\ call' = [op |-> "canApplyTo", side |-> side, specs |-> sp]
        /\ ret' = Return(canApplyTo(graph, side, sp))
        /\ UNCHANGED <<graph, opArgs, specs, geom, forme, memo, solid, trail, count, inputs>>

GetOpposite ==
    \E side \in Sides, sp \in SpecsSet, opts \in CallOpts :
        /\ call = NoCall
        /\ call' = [op |-> "getOpposite", side |-> side, specs |-> sp, opts |-> opts]
        /\ ret' = getOpposite(graph, side, sp, opts)
        /\ UNCHANGED <<graph, opArgs, specs, geom, forme, memo, solid, trail, count, inputs>>

Apply ==
    \E side \in Sides, sp \in SpecsSet, opts \in CallOpts :
        /\ call = NoCall
        /\ call' = [op |-> "apply", side |-> side, specs |-> sp, opts |-> opts]
        /\ ret' = apply(graph, side, sp, opts)
        /\ UNCHANGED <<graph, opArgs, specs, geom, forme, memo, solid, trail, count, inputs>>

\* makeOperation(side, op).graph()
DirectedGraph ==
    \E side \in Sides :
        /\ call = NoCall
        /\ call' = [op |-> "graph", side |-> side]
        /\ ret' = Return(makeOperation(side, graph).graph)
        /\ UNCHANGED <<graph, opArgs, specs, geom, forme, memo, solid, trail, count, inputs>>

\* the caller has taken the result: the engine is ready for the next call
Done ==
    /\ call # NoCall
    /\ call' = NoCall
    /\ ret' = NoRet
    /\ UNCHANGED <<graph, opArgs, specs, geom, forme, memo, solid, trail, count, inputs>>

Next ==
    \/ Done
    \/ FindEntry
    \/ GetEntry
    \/ HasOptions
    \/ AllOptions
    \/ CanApplyTo
    \/ GetOpposite
    \/ Apply
    \/ DirectedGraph

Spec == Init /\ [][Next]_vars

(***************************************************************************)
(* Properties of OpPair, stated on the graph itself.                       *)
(***************************************************************************)
\* the options entry i carries on a side, {} when it carries none
SideOptions(i, side) ==
    IF graph[i].options = <<>> THEN EmptyOpts ELSE graph[i].options[1][side]

\* every field of o appears in entry i's side options with the same value
Contains(i, side, o) ==
    \A k \in DOMAIN o : k \in DOMAIN SideOptions(i, side) /\ SideOptions(i, side)[k] = o[k]

\* the caller's options, {} when omitted
GivenOpts(opts) == IF opts = <<>> THEN EmptyOpts ELSE opts[1]

\* entry i has Specs sp on the side and its side options contain opts
Matches(i, side, sp, opts) ==
    graph[i][side] = sp /\ Contains(i, side, GivenOpts(opts))

MatchingEntries(side, sp, opts) ==
    {i \in 1..Len(graph) : Matches(i, side, sp, opts)}

\* the entries with Specs sp on the side, whatever their options
EntriesOf(side, sp) == {i \in 1..Len(graph) : graph[i][side] = sp}

Least(S) == CHOOSE i \in S : \A j \in S : i <= j

\* C1: getEntry, and so apply, throws exactly when no entry of the graph has
\* the Specs on that side with side options matching the given ones; apply
\* throws before any pose or geometry is computed.
C1_FailsIffNoEntry ==
    /\ call.op \in {"getEntry", "apply"} =>
           (ret.threw <=> MatchingEntries(call.side, call.specs, call.opts) = {})
    /\ call.op = "apply" =>
           /\ ret.threw => ret.calls = <<>>
           /\ ~ret.threw => ret.calls # <<>> /\ ret.calls[1] = "createForme"

\* apply has thrown on a graph that does hold the Specs on that side, with
\* other options
C1_Witness ==
    /\ call.op = "apply"
    /\ ret.threw
    /\ EntriesOf(call.side, call.specs) # {}

\* C5: findEntry returns the first entry in graph order with the Specs on the
\* side and side options containing every field of opts; omitted or empty
\* opts select the first entry with the Specs; canApplyTo is true exactly
\* when some entry has the Specs on the side.
C5_FirstPartialMatch ==
    /\ call.op = "findEntry" =>
           LET M == MatchingEntries(call.side, call.specs, call.opts)
           IN  /\ ret.val = (IF M = {} THEN <<>> ELSE <<Least(M)>>)
               /\ (call.opts = <<>> \/ call.opts = <<EmptyOpts>>) =>
                      M = EntriesOf(call.side, call.specs)
    /\ call.op = "canApplyTo" =>
           (ret.val <=> EntriesOf(call.side, call.specs) # {})

\* findEntry has skipped an entry with the right Specs whose options do not
\* contain the given field, and returned a later one
C5_Witness ==
    /\ call.op = "findEntry"
    /\ ret.val # <<>>
    /\ ret.val[1] > 1
    /\ graph[1][call.side] = call.specs
    /\ call.opts # <<>>

\* C4: the one-way graph of a side lists, entry by entry and in the graph's
\* order, start = entry[side], end = entry[opposite side] and the entry's
\* options for that side; it is the other side's one-way graph with start
\* and end swapped.
C4_Bidirectional ==
    call.op = "graph" =>
        LET other == makeOperation(oppositeSide(call.side), graph).graph
            opp == IF call.side = "left" THEN "right" ELSE "left"
        IN  /\ Len(ret.val) = Len(graph)
            /\ Len(other) = Len(graph)
            /\ \A i \in 1..Len(graph) :
                   /\ ret.val[i].start = graph[i][call.side]
                   /\ ret.val[i].end = graph[i][opp]
                   /\ ret.val[i].options =
                          (IF graph[i].options = <<>> THEN <<>>
                           ELSE <<graph[i].options[1][call.side]>>)
                   /\ ret.val[i].start = other[i].end
                   /\ ret.val[i].end = other[i].start

\* the one-way graph of the right side of a graph of two entries
C4_Witness ==
    /\ call.op = "graph"
    /\ call.side = "right"
    /\ Len(ret.val) = 2
    /\ ret.val[1].start # ret.val[2].start

\* on the side, no two entries share the Specs with the options of one
\* containing the options of the other
Unambiguous(side) ==
    \A i, j \in 1..Len(graph) :
        (i # j /\ graph[i][side] = graph[j][side]) => ~Contains(i, side, SideOptions(j, side))

\* the entries a call of getOpposite may have started from: those with the
\* call's Specs and exactly the call's options on the call's side
StartedFrom ==
    {i \in 1..Len(graph) :
        /\ graph[i][call.side] = call.specs
        /\ call.opts = (IF graph[i].options = <<>> THEN <<>>
                        ELSE <<graph[i].options[1][call.side]>>)}

\* the way back from the result of getOpposite, with entry i's options for
\* the opposite side
WayBack(i) ==
    getOpposite(graph, oppositeSide(call.side), ret.val,
                entryOption(graph[i], oppositeSide(call.side)))

\* C2 as claimed: from any entry, getOpposite with the entry's own options
\* and then getOpposite back with the entry's options of the other side
\* returns a Specs equivalent to the one started from.
C2_RoundTripAnyGraph ==
    call.op = "getOpposite" =>
        \A i \in StartedFrom :
            /\ ~ret.threw
            /\ ~WayBack(i).threw
            /\ WayBack(i).val.shape = call.specs.shape

\* C2, amended: the round trip returns the very Specs started from when the
\* graph is unambiguous on both sides.
C2_RoundTripUnambiguous ==
    (call.op = "getOpposite" /\ Unambiguous("left") /\ Unambiguous("right")) =>
        \A i \in StartedFrom :
            /\ ~ret.threw
            /\ ret.val = graph[i][oppositeSide(call.side)]
            /\ ~WayBack(i).threw
            /\ WayBack(i).val = call.specs

\* getOpposite from the second of two entries that share their left Specs
\* and differ in their options, in an unambiguous graph
C2_Witness ==
    /\ call.op = "getOpposite"
    /\ call.side = "left"
    /\ Unambiguous("left") /\ Unambiguous("right")
    /\ 2 \in StartedFrom
    /\ graph[1].left = graph[2].left
    /\ ~ret.threw

\* the k-th entry, in graph order, with Specs sp on the side
RECURSIVE NthOf(_, _)
NthOf(S, k) == IF k = 1 THEN Least(S) ELSE NthOf(S \ {Least(S)}, k - 1)

\* allOptions yields one option set per entry with the Specs on the side, in
\* graph order, {} for an entry without options; hasOptions tells whether
\* there is more than one such entry
C6_Enumeration ==
    /\ call.op = "allOptions" =>
           LET E == EntriesOf(call.side, call.specs)
           IN  /\ Len(ret.val) = Cardinality(E)
               /\ \A k \in 1..Len(ret.val) :
                      ret.val[k] = SideOptions(NthOf(E, k), call.side)
    /\ call.op = "hasOptions" =>
           (ret.val <=> Cardinality(EntriesOf(call.side, call.specs)) > 1)

\* C6 as claimed: the enumeration is as above, and every option set yielded,
\* handed back to getEntry, resolves to the entry it was enumerated from.
C6_ResolvesToOwnEntry ==
    /\ C6_Enumeration
    /\ call.op = "allOptions" =>
           \A k \in 1..Len(ret.val) :
               LET back == getEntry(graph, call.side, call.specs, <<ret.val[k]>>)
               IN  /\ ~back.threw
                   /\ back.val = NthOf(EntriesOf(call.side, call.specs), k)

\* C6, amended: every option set yielded resolves to the first entry with
\* the Specs whose side options contain it; that is the entry it was
\* enumerated from when the graph is unambiguous on the side.
C6_ResolvesToFirstMatch ==
    /\ C6_Enumeration
    /\ call.op = "allOptions" =>
           \A k \in 1..Len(ret.val) :
               LET back == getEntry(graph, call.side, call.specs, <<ret.val[k]>>)
                   own == NthOf(EntriesOf(call.side, call.specs), k)
               IN  /\ ~back.threw
                   /\ back.val = Least(MatchingEntries(call.side, call.specs, <<ret.val[k]>>))
                   /\ back.val <= own
                   /\ Unambiguous(call.side) => back.val = own

\* allOptions has yielded two different option sets for one Specs
C6_Witness ==
    /\ call.op = "allOptions"
    /\ Len(ret.val) = 2
    /\ ret.val[1] # ret.val[2]
    /\ Unambiguous(call.side)


(***************************************************************************)
(* Specification of a combined operation: combineOps has been given two    *)
(* one-way operations of the same side; each action is one call.           *)
(***************************************************************************)
\* opArgs: two sub-operations made by makeOperation, of the same side; g is
\* cut after its first c entries
CombinedArgs(side, g, c) ==
    <<makeOperation(side, SubSeq(g, 1, c)),
      makeOperation(side, SubSeq(g, c + 1, Len(g)))>>

InitCombine ==
    /\ graph = <<>>
    /\ \E side \in Sides, g \in SeqsUpTo(GraphEntries, MaxCombined) :
           \E c \in 0..Len(g) : opArgs = CombinedArgs(side, g, c)
    /\ specs = "none"
    /\ geom = "none"
    /\ forme = "none"
    /\ memo = NoMemo
    /\ solid = "none"
    /\ trail = <<>>
    /\ count = 0
    /\ inputs = "none"
    /\ call = NoCall
    /\ ret = NoRet

CombinedApply ==
    \E sp \in SpecsSet, opts \in CallOpts :
        /\ call = NoCall
        /\ call' = [op |-> "combined.apply", specs |-> sp, opts |-> opts]
        /\ ret' = combinedApply(opArgs, sp, opts)
        /\ UNCHANGED <<graph, opArgs, specs, geom, forme, memo, solid, trail, count, inputs>>

CombinedToGraphOpts ==
    \E sp \in SpecsSet, opts \in CallOpts :
        /\ call = NoCall
        /\ call' = [op |-> "combined.toGraphOpts", specs |-> sp, opts |-> opts]
        /\ ret' = combinedToGraphOpts(opArgs, sp, opts)
        /\ UNCHANGED <<graph, opArgs, specs, geom, forme, memo, solid, trail, count, inputs>>

CombinedGraph ==
    /\ call = NoCall
    /\ call' = [op |-> "combined.graph"]
    /\ ret' = Return(combinedGraph(opArgs))
    /\ UNCHANGED <<graph, opArgs, specs, geom, forme, memo, solid, trail, count, inputs>>

NextCombine ==
    \/ Done
    \/ CombinedApply
    \/ CombinedToGraphOpts
    \/ CombinedGraph

SpecCombine == InitCombine /\ [][NextCombine]_vars

\* the entries (k, j) of the sub-operations' one-way graphs whose start is
\* equivalent to sp and whose options hold every field of opts that has a
\* truthy value
Dispatchable(sp, opts) ==
    {kj \in {<<k, j>> : k \in 1..Len(opArgs), j \in 1..MaxCombined} :
        /\ kj[2] <= Len(opArgs[kj[1]].pair)
        /\ LET e == opArgs[kj[1]].pair[kj[2]]
               side == opArgs[kj[1]].side
               eo == IF e.options = <<>> THEN EmptyOpts ELSE e.options[1][side]
               o == GivenOpts(opts)
           IN  /\ e[side].shape = sp.shape
               /\ \A f \in DOMAIN o : o[f] # "undefined" => (f \in DOMAIN eo /\ eo[f] = o[f])}

FormeSpecs(family, augmented, diminished, gyrate) ==
    [family |-> family,
     augmented |-> augmented, diminished |-> diminished, gyrate |-> gyrate,
     secondary |-> FALSE, icosahedral |-> FALSE, tetrahedral |-> FALSE, regular |-> FALSE]

\* the ways the faces can be adjacent to each other
AdjGraphs ==
    {adj \in [Faces -> SUBSET Faces] :
        \A i \in Faces : i \notin adj[i] /\ \A j \in adj[i] : i \in adj[j]}

NoAdj == [i \in Faces |-> {}]

SameNormals == [i \in Faces |-> 1]

\* an edge of a cap's boundary: the cap's face on it and the face across it
Edge(face, twin) == [face |-> face, twin |-> twin]

\* a boundary edge with a given face across it
EdgeAcross(twin) == Edge((twin % NumFaces) + 1, twin)

\* boundaries with up to n edges, by the faces across them
BoundariesAcross(n) ==
    {[k \in 1..Len(ts) |-> EdgeAcross(ts[k])] : ts \in SeqsUpTo(Faces, n) \ {<<>>}}

\* the caps of a polyhedron: cap k has vertex k as its inner vertex
MakeCaps(boundaries, normals) ==
    [k \in 1..Len(boundaries) |->
        [inner |-> {k}, boundary |-> boundaries[k], normal |-> normals[k]]]

\* the vertices a face can hold that are inner vertices of caps
CapVertices == {1, 2}

\* a vertex that is an inner vertex of no cap
OtherVertex == 0

\* Polyhedron.vertices, by index
PolyVertices == CapVertices \cup {OtherVertex}

MakeGeom(sides, adj, normals, capSeq) ==
    [faces |-> [i \in Faces |-> [numSides |-> sides[i], adj |-> adj[i], normal |-> normals[i]]],
     vertices |-> PolyVertices,
     caps |-> capSeq]

Idle ==
    /\ graph = <<>>
    /\ opArgs = <<>>
    /\ forme = "none"
    /\ memo = NoMemo
    /\ solid = "none"
    /\ trail = <<>>
    /\ count = 0
    /\ inputs = "none"
    /\ call = NoCall
    /\ ret = NoRet

\* an augmented prism with its one or two caps
InitAugmentedPrism ==
    \E sides \in [Faces -> SideCounts], bs \in SeqsUpTo(BoundariesAcross(2), 2) \ {<<>>} :
        /\ specs = FormeSpecs("augmentedPrism", 1, 0, 0)
        /\ geom = MakeGeom(sides, NoAdj, SameNormals, MakeCaps(bs, <<1, 1>>))

\* an augmented classical solid with its one or two caps
InitAugmentedClassical ==
    \E sides \in [Faces -> SideCounts], bs \in SeqsUpTo(BoundariesAcross(1), 2) \ {<<>>},
       tetrahedral \in BOOLEAN, regular \in BOOLEAN :
        /\ specs = [FormeSpecs("augmentedClassical", 1, 0, 0)
                        EXCEPT !.tetrahedral = tetrahedral, !.regular = regular]
        /\ geom = MakeGeom(sides, NoAdj, SameNormals, MakeCaps(bs, <<1, 1>>))

\* a diminished solid, augmented or not, with at most one cap
InitDiminishedSolid ==
    \E sides \in [Faces -> SideCounts], adj \in AdjGraphs,
       bs \in SeqsUpTo(BoundariesAcross(1), 1), augmented \in Counts, diminished \in Counts :
        /\ specs = FormeSpecs("diminishedSolid", augmented, diminished, 0)
        /\ geom = MakeGeom(sides, adj, SameNormals, MakeCaps(bs, <<1>>))

\* a gyrate solid with at most one cap
InitGyrateSolid ==
    \E sides \in [Faces -> SideCounts], bs \in SeqsUpTo(BoundariesAcross(1), 1),
       diminished \in Counts, gyrate \in Counts :
        /\ specs = FormeSpecs("gyrateSolid", 0, diminished, gyrate)
        /\ geom = MakeGeom(sides, NoAdj, SameNormals, MakeCaps(bs, <<1>>))

\* a Composite of none of the four families
InitNoFamily ==
    \E sides \in [Faces -> SideCounts], augmented \in Counts :
        /\ specs = FormeSpecs("none", augmented, 0, 0)
        /\ geom = MakeGeom(sides, NoAdj, SameNormals, <<>>)

InitForme ==
    /\ Idle
    /\ \/ InitAugmentedPrism
       \/ InitAugmentedClassical
       \/ InitDiminishedSolid
       \/ InitGyrateSolid
       \/ InitNoFamily

Create ==
    /\ call = NoCall
    /\ forme = "none"
    /\ call' = [op |-> "create"]
    /\ ret' = create(specs)
    /\ forme' = IF create(specs).threw THEN "invalid" ELSE create(specs).val
    /\ memo' = NoMemo
    /\ UNCHANGED <<graph, opArgs, specs, geom, solid, trail, count, inputs>>

\* the faces a call can pass: a face of the polyhedron with its vertices
FaceArgs ==
    {[index |-> i, vertices |-> vs] :
        i \in Faces,
        vs \in IF forme = "augmentedClassical"
               THEN (SUBSET PolyVertices) \ {{}}
               ELSE {{OtherVertex}}}

\* the variants whose callers tell source faces from cap faces
SourcedVariants == {"augmentedPrism", "augmentedClassical"}

\* an earlier call has left the memo filled
Warm == memo.cached # Absent

\* the memo after a call that reads capInnerVertIndices()
Memoized == once(memo, capInnerVertIndices(forme, specs, geom))

CanAugment ==
    /\ call = NoCall
    /\ forme \in Families
    /\ \E face \in FaceArgs :
        /\ call' = [op |-> "canAugment", face |-> face, warm |-> Warm]
        /\ ret' = Return(canAugment(forme, specs, geom, face))
    /\ memo' = IF forme = "augmentedClassical" THEN Memoized ELSE memo
    /\ UNCHANGED <<graph, opArgs, specs, geom, forme, solid, trail, count, inputs>>

IsSourceFace ==
    /\ call = NoCall
    /\ forme \in SourcedVariants
    /\ \E face \in FaceArgs :
        /\ call' = [op |-> "isSourceFace", face |-> face, warm |-> Warm]
        /\ ret' = Return(isSourceFace(forme, specs, geom, face))
    /\ memo' = Memoized
    /\ UNCHANGED <<graph, opArgs, specs, geom, forme, solid, trail, count, inputs>>

SourceVertices ==
    /\ call = NoCall
    /\ forme \in SourcedVariants
    /\ call' = [op |-> "sourceVertices", warm |-> Warm]
    /\ ret' = Return(sourceVertices(forme, specs, geom))
    /\ memo' = Memoized
    /\ UNCHANGED <<graph, opArgs, specs, geom, forme, solid, trail, count, inputs>>

IsMainFace ==
    /\ call = NoCall
    /\ forme = "augmentedClassical"
    /\ \E face \in FaceArgs :
        /\ call' = [op |-> "isMainFace", face |-> face, warm |-> Warm]
        /\ ret' = Return(isMainFace(forme, specs, geom, face))
    /\ memo' = Memoized
    /\ UNCHANGED <<graph, opArgs, specs, geom, forme, solid, trail, count, inputs>>

IsCapTop ==
    /\ call = NoCall
    /\ forme = "augmentedClassical"
    /\ \E face \in FaceArgs :
        /\ call' = [op |-> "isCapTop", face |-> face, warm |-> Warm]
        /\ ret' = Return(isCapTop(forme, specs, geom, face))
    /\ memo' = IF specs.regular THEN memo ELSE Memoized
    /\ UNCHANGED <<graph, opArgs, specs, geom, forme, solid, trail, count, inputs>>

IsDiminishedFace ==
    /\ call = NoCall
    /\ forme \in {"diminishedSolid", "gyrateSolid"}
    /\ \E i \in Faces :
        /\ call' = [op |-> "isDiminishedFace", face |-> [index |-> i, vertices |-> {OtherVertex}]]
        /\ ret' = Return(isDiminishedFace(specs, geom, i))
    /\ UNCHANGED <<graph, opArgs, specs, geom, forme, memo, solid, trail, count, inputs>>

NextForme ==
    \/ Done
    \/ Create
    \/ CanAugment
    \/ IsDiminishedFace
    \/ IsSourceFace
    \/ SourceVertices
    \/ IsMainFace
    \/ IsCapTop

SpecForme == InitForme /\ [][NextForme]_vars

\* the variants in the order create tries their predicates
VariantOrder == <<"augmentedPrism", "augmentedClassical", "diminishedSolid", "gyrateSolid">>

\* the positions in VariantOrder of the predicates that hold of the Specs
HoldingPredicates ==
    {k \in DOMAIN VariantOrder :
        \/ k = 1 /\ specsIsAugmentedPrism(specs)
        \/ k = 2 /\ specsIsAugmentedClassical(specs)
        \/ k = 3 /\ specsIsDiminishedSolid(specs)
        \/ k = 4 /\ specsIsGyrateSolid(specs)}

AcrossBoundaryOf(k) ==
    \E e \in 1..Len(geom.caps[k].boundary) : geom.caps[k].boundary[e].twin = call.face.index

\* the caps the forme's caps() lists
FormeCaps ==
    IF forme = "augmentedClassical" /\ specs.tetrahedral /\ specs.regular
    THEN {1}
    ELSE 1..Len(geom.caps)

\* the face passed to the call has as many sides as the largest face
HasMostSides ==
    \A i \in Faces : geom.faces[i].numSides <= geom.faces[call.face.index].numSides

\* every face adjacent to the face passed to the call is a pentagon
AmongPentagons ==
    \A i \in geom.faces[call.face.index].adj : geom.faces[i].numSides = 5

\* C8 as stated: in all four variants canAugment is false for every face
\* that is part of the boundary of one of the forme's caps.
C8_NoAugmentOnCapBoundary ==
    call.op = "canAugment" =>
        \A k \in FormeCaps : AcrossBoundaryOf(k) => ret.val = FALSE

\* C8: in the AugmentedPrism and AugmentedClassical variants canAugment is
\* false for every face across the boundary of a cap that the forme's caps()
\* lists; GyrateSolid answers by the diminished faces alone, whatever the caps.
C8_AugmentedRefuseCapBoundary ==
    call.op = "canAugment" =>
        /\ forme \in {"augmentedPrism", "augmentedClassical"} =>
            \A k \in FormeCaps : AcrossBoundaryOf(k) => ret.val = FALSE
        /\ forme = "gyrateSolid" =>
            (ret.val <=> specs.diminished > 0 /\ HasMostSides)

\* a main face of an augmented classical solid is refused for the cap beside it
C8_Witness ==
    /\ call.op = "canAugment"
    /\ forme = "augmentedClassical"
    /\ specs.regular
    /\ call.face.vertices = {OtherVertex}
    /\ \E k \in FormeCaps : AcrossBoundaryOf(k)
    /\ ret.val = FALSE

\* C10 as stated: in DiminishedSolidForme a face is a diminished face iff it
\* has as many sides as the largest face, and canAugment holds iff the face is
\* a diminished face or every adjacent face is a pentagon.
C10_DiminishedRule ==
    forme = "diminishedSolid" =>
        /\ call.op = "isDiminishedFace" => (ret.val <=> HasMostSides)
        /\ call.op = "canAugment" => (ret.val <=> HasMostSides \/ AmongPentagons)

\* C10: in DiminishedSolidForme a face is a diminished face iff the Specs is
\* diminished and the face has as many sides as the largest face; canAugment
\* is false when the Specs is augmented, and otherwise holds iff the face is a
\* diminished face or every adjacent face is a pentagon.
C10_DiminishedRuleUnaugmented ==
    forme = "diminishedSolid" =>
        /\ call.op = "isDiminishedFace" =>
            (ret.val <=> specs.diminished > 0 /\ HasMostSides)
        /\ call.op = "canAugment" =>
            (ret.val <=> /\ specs.augmented = 0
                         /\ \/ specs.diminished > 0 /\ HasMostSides
                            \/ AmongPentagons)

\* a face that is not diminished is augmentable because pentagons surround it
C10_Witness ==
    /\ forme = "diminishedSolid"
    /\ call.op = "canAugment"
    /\ specs.augmented = 0
    /\ specs.diminished > 0
    /\ ~HasMostSides
    /\ geom.faces[call.face.index].adj # {}
    /\ AmongPentagons
    /\ ret.val = TRUE

(***************************************************************************)
(* Specification of the alignment of one CompositeForme: the initial       *)
(* states vary the counts, the source and the normals that hasAlignment,   *)
(* modifications and alignment read.                                       *)
(***************************************************************************)
AllSquares == [i \in Faces |-> 4]

\* the faces point in turn along 1 and -1
TurningNormals == [i \in Faces |-> IF i % 2 = 1 THEN 1 ELSE -1]

CountTriples == Counts \X Counts \X Counts

\* one or two caps, each with a normal and a boundary of one edge
CapsWithNormals ==
    {MakeCaps([k \in 1..Len(ns) |-> <<EdgeAcross(1)>>], ns) : ns \in SeqsUpTo(Normals, 2) \ {<<>>}}

\* boundaries with up to n edges between any two faces
Boundaries(n) ==
    SeqsUpTo({Edge(p[1], p[2]) : p \in {q \in Faces \X Faces : q[1] # q[2]}}, n) \ {<<>>}

AlignAugmentedPrism ==
    \E c \in CountTriples, secondary \in BOOLEAN, capSeq \in CapsWithNormals :
        /\ specs = [FormeSpecs("augmentedPrism", c[1], c[2], c[3])
                        EXCEPT !.secondary = secondary]
        /\ geom = MakeGeom(AllSquares, NoAdj, TurningNormals, capSeq)

AlignAugmentedClassical ==
    \E c \in CountTriples, icosahedral \in BOOLEAN, tetrahedral \in BOOLEAN,
       regular \in BOOLEAN, capSeq \in CapsWithNormals :
        /\ specs = [FormeSpecs("augmentedClassical", c[1], c[2], c[3])
                        EXCEPT !.icosahedral = icosahedral,
                               !.tetrahedral = tetrahedral, !.regular = regular]
        /\ geom = MakeGeom(AllSquares, NoAdj, TurningNormals, capSeq)

AlignDiminishedSolid ==
    \E c \in CountTriples, sides \in [Faces -> SideCounts], normals \in [Faces -> Normals] :
        /\ specs = FormeSpecs("diminishedSolid", c[1], c[2], c[3])
        /\ geom = MakeGeom(sides, NoAdj, normals, <<>>)

AlignGyrateSolid ==
    \E c \in CountTriples, sides \in [Faces -> SideCounts],
       bs \in SeqsUpTo(Boundaries(1), 1), n \in Normals :
        /\ specs = FormeSpecs("gyrateSolid", c[1], c[2], c[3])
        /\ geom = MakeGeom(sides, NoAdj, TurningNormals, MakeCaps(bs, <<n>>))

InitAlign ==
    /\ Idle
    /\ \/ AlignAugmentedPrism
       \/ AlignAugmentedClassical
       \/ AlignDiminishedSolid
       \/ AlignGyrateSolid

\* the caps and faces of the polyhedron
Bases == {CapRef(k) : k \in 1..Len(geom.caps)} \cup {FaceRef(i) : i \in Faces}

HasAlignment ==
    /\ call = NoCall
    /\ forme \in Families
    /\ call' = [op |-> "hasAlignment"]
    /\ ret' = Return(hasAlignment(forme, specs))
    /\ UNCHANGED <<graph, opArgs, specs, geom, forme, memo, solid, trail, count, inputs>>

Alignment ==
    /\ call = NoCall
    /\ forme \in Families
    /\ \E base \in Bases :
        /\ call' = [op |-> "alignment", cap |-> base]
        /\ ret' = alignment(forme, specs, geom, base)
    /\ UNCHANGED <<graph, opArgs, specs, geom, forme, memo, solid, trail, count, inputs>>

NextAlign ==
    \/ Done
    \/ Create
    \/ HasAlignment
    \/ Alignment

SpecAlign == InitAlign /\ [][NextAlign]_vars

\* the Specs counts one modification in all
OneModification == specs.augmented + specs.diminished + specs.gyrate = 1

\* what the variant asks of the source before it has an alignment
SourceAllowsAlignment ==
    /\ forme = "augmentedPrism" => specs.secondary
    /\ forme = "augmentedClassical" => specs.icosahedral

\* the normal of a cap or face of the polyhedron
NormalOf(base) ==
    IF base.kind = "cap" THEN geom.caps[base.index].normal ELSE geom.faces[base.index].normal

InnerVerticesOf(capIndices) == UNION {geom.caps[k].inner : k \in capIndices}

\* no vertex of the face passed to the call is an inner vertex of the forme's caps
OnSource == call.face.vertices \cap InnerVerticesOf(FormeCaps) = {}

\* the face passed to the call is no triangle
NotTriangle == geom.faces[call.face.index].numSides # 3

\* C11 as stated: in AugmentedClassicalForme isMainFace is true of every
\* face when the source classical solid is regular, and otherwise exactly of
\* the faces whose side count is not 3.
C11_MainFaces ==
    call.op = "isMainFace" =>
        (ret.val <=> specs.regular \/ NotTriangle)

\* C11: in AugmentedClassicalForme isMainFace is false of every face that is
\* not a source face; of the source faces it is true of every one when the
\* source classical solid is regular, and otherwise exactly of those whose
\* side count is not 3.
C11_MainSourceFaces ==
    call.op = "isMainFace" =>
        (ret.val <=> OnSource /\ (specs.regular \/ NotTriangle))

\* a source face of a solid that is not regular is a main face for its sides
C11_Witness ==
    /\ call.op = "isMainFace"
    /\ ~specs.regular
    /\ call.face.vertices \cap CapVertices # {}
    /\ OnSource
    /\ NotTriangle
    /\ ret.val = TRUE

\* the calls that read the memoized set of cap inner vertices
ReadsMemo ==
    \/ call.op \in {"isSourceFace", "sourceVertices", "isMainFace"}
    \/ call.op = "canAugment" /\ forme = "augmentedClassical"
    \/ call.op = "isCapTop" /\ ~specs.regular

\* C12 as stated: isSourceFace is true iff no vertex of the face is an inner
\* vertex of any cap of the polyhedron, and the set of cap inner vertices is
\* computed at most once per forme.
C12_SourceFaceAllCaps ==
    /\ call.op = "isSourceFace" =>
        (ret.val <=> call.face.vertices \cap InnerVerticesOf(1..Len(geom.caps)) = {})
    /\ memo.computations <= 1

\* C12: isSourceFace is true iff no vertex of the face is an inner vertex of
\* a cap that the forme's caps() lists; the set of cap inner vertices is
\* computed at most once per forme, by the first call that reads it, and
\* later calls of isSourceFace, sourceVertices, isMainFace or isCapTop read
\* what was kept.
C12_SourceFaceFormeCaps ==
    /\ call.op = "isSourceFace" => (ret.val <=> OnSource)
    /\ call.op = "sourceVertices" => ret.val = geom.vertices \ InnerVerticesOf(FormeCaps)
    /\ memo.computations <= 1
    /\ ReadsMemo =>
        /\ memo.computations = 1
        /\ memo.cached = Some(InnerVerticesOf(FormeCaps))

\* a later call of isSourceFace answers from the set an earlier call computed
C12_Witness ==
    /\ call.op = "isSourceFace"
    /\ call.warm
    /\ memo.computations = 1
    /\ ret.val = FALSE

(***************************************************************************)
(* Specification of GyrateSolidForme.isGyrate: the polyhedron has one cap  *)
(* with up to three boundary edges, and a call passes the cap with its     *)
(* boundary listed from any of its edges.                                  *)
(***************************************************************************)
\* the edge list started r edges further round the boundary
rotated(edges, r) ==
    [k \in 1..Len(edges) |-> edges[((k - 1 + r) % Len(edges)) + 1]]

InitGyrate ==
    /\ Idle
    /\ \E sides \in [Faces -> SideCounts], boundary \in Boundaries(3) :
        /\ specs = FormeSpecs("gyrateSolid", 0, 0, 1)
        /\ geom = MakeGeom(sides, NoAdj, SameNormals, MakeCaps(<<boundary>>, <<1>>))

IsGyrate ==
    /\ call = NoCall
    /\ forme = "gyrateSolid"
    /\ \E k \in 1..Len(geom.caps) : \E r \in 0..(Len(geom.caps[k].boundary) - 1) :
        /\ call' = [op |-> "isGyrate", cap |-> k, start |-> r]
        /\ ret' = Return(isGyrate(geom,
                    [geom.caps[k] EXCEPT !.boundary = rotated(geom.caps[k].boundary, r)]))
    /\ UNCHANGED <<graph, opArgs, specs, geom, forme, memo, solid, trail, count, inputs>>

NextGyrate ==
    \/ Done
    \/ Create
    \/ IsGyrate

SpecGyrate == InitGyrate /\ [][NextGyrate]_vars

\* the two faces at a boundary edge agree on whether they have 4 sides
SquaresAgree(edge) ==
    (geom.faces[edge.face].numSides = 4) <=> (geom.faces[edge.twin].numSides = 4)

\* C13: isGyrate(cap) is true iff at every edge of the cap's boundary the two
\* adjacent faces agree on whether they are 4-sided, from whichever edge the
\* boundary's edge list starts.
C13_GyrateAnyStart ==
    call.op = "isGyrate" =>
        (ret.val <=> \A e \in 1..Len(geom.caps[call.cap].boundary) :
                        SquaresAgree(geom.caps[call.cap].boundary[e]))

\* a boundary listed from its second edge is not gyrate for an edge where
\* the faces disagree, although they agree at the edge now listed first
C13_Witness ==
    /\ call.op = "isGyrate"
    /\ call.start = 1
    /\ Len(geom.caps[call.cap].boundary) = 3
    /\ SquaresAgree(geom.caps[call.cap].boundary[2])
    /\ ~SquaresAgree(geom.caps[call.cap].boundary[1])
    /\ ret.val = FALSE

\* C18: whenever the dispatch of a combined operation selects a
\* sub-operation, that sub-operation's apply, called with the forme re-wrapped
\* on the entry's start and the caller's options, resolves a graph entry and
\* does not fail, also for an option field whose value is undefined and for
\* a solid whose Specs is equivalent but not equal to the start.
C18_DispatchedApplyResolves ==
    (call.op = "combined.apply" /\ ret.dispatch # <<>>) => ~ret.threw

(***************************************************************************)
(* Capstone Specs and the prism operations built on them (FaceLike.ts).    *)
(***************************************************************************)
BaseSizes == {2, 3, 4, 5}

Kinds == {"primary", "secondary"}

Elongations == {"null", "prism", "antiprism"}

Gyrations == {"none", "ortho", "gyro"}

\* Capstone data: count 0 is a prism or antiprism; only bicupolae are ortho
\* or gyro; only the gyroelongated bicupolae are chiral and carry a twist
Capstones ==
    {c \in [shape : [base : BaseSizes, kind : Kinds, count : 0..2,
                     elongation : Elongations, gyrate : Gyrations],
            twist : {"none"} \cup Twists] :
        /\ (c.shape.count = 0 => c.shape.elongation # "null")
        /\ (c.shape.gyrate # "none" <=> (c.shape.kind = "secondary" /\ c.shape.count = 2))
        /\ (c.twist # "none" <=> (c.shape.gyrate # "none" /\ c.shape.elongation = "antiprism"))}

isPrismatic(s) == s.shape.count = 0

isPrism(s) == isPrismatic(s) /\ s.shape.elongation = "prism"

isDigonal(s) == s.shape.base = 2

isTriangular(s) == s.shape.base = 3

isPrimary(s) == s.shape.kind = "primary"

isSecondary(s) == s.shape.kind = "secondary"

isMonoCapstone(s) == s.shape.count = 1

isBi(s) == s.shape.count = 2

isGyro(s) == s.shape.gyrate = "gyro"

\* specs.withData(data): the Specs with the named fields overwritten
withData(s, data) ==
    [shape |-> [f \in DOMAIN s.shape |->
                   IF f \in DOMAIN data THEN data[f] ELSE s.shape[f]],
     twist |-> IF "twist" \in DOMAIN data THEN data.twist ELSE s.twist]

\* the position of a Specs in the catalogue
capstoneRank(c) ==
    LET k == IF c.shape.kind = "primary" THEN 0 ELSE 1
        e == CASE c.shape.elongation = "null" -> 0
               [] c.shape.elongation = "prism" -> 1
               [] OTHER -> 2
        g == CASE c.shape.gyrate = "none" -> 0
               [] c.shape.gyrate = "ortho" -> 1
               [] OTHER -> 2
        t == CASE c.twist = "none" -> 0 [] c.twist = "left" -> 1 [] OTHER -> 2
    IN  ((((k * 6 + c.shape.base) * 3 + c.shape.count) * 3 + e) * 3 + g) * 3 + t

\* Capstone.query: the catalogue, in a fixed order
CapstoneQuery ==
    LET ranks == ascending({capstoneRank(c) : c \in Capstones})
    IN  [i \in 1..Len(ranks) |-> CHOOSE c \in Capstones : capstoneRank(c) = ranks[i]]

\* query.where(s => s in S): the items of a sequence that are in S, in order
RECURSIVE whereFrom(_, _, _)
whereFrom(items, S, i) ==
    IF i > Len(items) THEN <<>>
    ELSE (IF items[i] \in S THEN <<items[i]>> ELSE <<>>) \o whereFrom(items, S, i + 1)

where(items, S) == whereFrom(items, S, 1)

\* makePrismOp keeping the right Specs on the left
makePrismOp_sameLeft(querySet, rightElongation, leftElongation) ==
    LET rights == where(CapstoneQuery,
                        {s \in Capstones : /\ s \in querySet
                                           /\ ~isPrismatic(s)
                                           /\ s.shape.elongation = rightElongation})
    IN  [i \in 1..Len(rights) |->
            [left |-> rights[i], right |-> rights[i], options |-> Absent]]

\* makePrismOp({query, rightElongation})(leftElongation): the graph of the pair
makePrismOp(querySet, rightElongation, leftElongation) ==
    LET rights == where(CapstoneQuery,
                        {s \in Capstones : /\ s \in querySet
                                           /\ ~isPrismatic(s)
                                           /\ s.shape.elongation = rightElongation})
    IN  [i \in 1..Len(rights) |->
            [left |-> withData(rights[i], [elongation |-> leftElongation]),
             right |-> rights[i],
             options |-> Absent]]

\* turnPrismatic: every prism but the digonal one turns into its antiprism
turnPrismatic ==
    LET lefts == where(CapstoneQuery, {s \in Capstones : isPrism(s) /\ ~isDigonal(s)})
    IN  [i \in 1..Len(lefts) |->
            [left |-> lefts[i],
             right |-> withData(lefts[i], [elongation |-> "antiprism"]),
             options |-> Absent]]

_elongate == makePrismOp({s \in Capstones : ~isDigonal(s)}, "prism", "null")

canGyroelongPrimary(s) == isPrimary(s) /\ ~isTriangular(s)

canGyroelongSecondary(s) == isSecondary(s) /\ ~isDigonal(s)

pyramidOps(leftElongation) ==
    makePrismOp({s \in Capstones : canGyroelongPrimary(s)}, "antiprism", leftElongation)

gyroelongPyramid == pyramidOps("null")

turnPyramid == pyramidOps("prism")

\* cupolaOps taking the bicupolae as well
cupolaOps_anyCount(leftElongation) ==
    makePrismOp({s \in Capstones : canGyroelongSecondary(s)},
                "antiprism", leftElongation)

cupolaOps(leftElongation) ==
    makePrismOp({s \in Capstones : canGyroelongSecondary(s) /\ isMonoCapstone(s)},
                "antiprism", leftElongation)

gyroelongCupola == cupolaOps("null")

turnCupola == cupolaOps("prism")

\* twists, in the order the entries are made
twists == <<"left", "right">>

\* makeBicupolaPrismOp twisting ortho bicupolae like gyro ones
makeBicupolaPrismOp_sameTwist(leftElongation) ==
    LET entries == where(CapstoneQuery,
                         {s \in Capstones : /\ canGyroelongSecondary(s)
                                            /\ isBi(s)
                                            /\ s.shape.elongation = leftElongation})
    IN  [i \in 1..(2 * Len(entries)) |->
            LET entry == entries[(i + 1) \div 2]
                twist == twists[((i - 1) % 2) + 1]
            IN  [left |-> entry,
                 right |-> withData(entry, [elongation |-> "antiprism", twist |-> "left"]),
                 options |-> Some([left |-> TwistOpts(twist),
                                   right |-> TwistOpts(oppositeTwist(twist))])]]

\* makeBicupolaPrismOp(leftElongation): two entries, one per twist, for each
\* bicupola of that elongation
makeBicupolaPrismOp(leftElongation) ==
    LET entries == where(CapstoneQuery,
                         {s \in Capstones : /\ canGyroelongSecondary(s)
                                            /\ isBi(s)
                                            /\ s.shape.elongation = leftElongation})
    IN  [i \in 1..(2 * Len(entries)) |->
            LET entry == entries[(i + 1) \div 2]
                twist == twists[((i - 1) % 2) + 1]
            IN  [left |-> entry,
                 right |-> withData(entry,
                               [elongation |-> "antiprism",
                                twist |-> IF isGyro(entry) THEN twist
                                          ELSE oppositeTwist(twist)]),
                 options |-> Some([left |-> TwistOpts(twist),
                                   right |-> TwistOpts(oppositeTwist(twist))])]]

gyroelongBicupola == makeBicupolaPrismOp("null")

turnBicupola == makeBicupolaPrismOp("prism")

\* pairs.map(op => op[side])
RECURSIVE mapSide(_, _, _)
mapSide(pairs, side, k) ==
    IF k > Len(pairs) THEN <<>>
    ELSE <<makeOperation(side, pairs[k])>> \o mapSide(pairs, side, k + 1)

\* pairs.flatMap(op => [op.left, op.right])
RECURSIVE flatMapSides(_, _)
flatMapSides(pairs, k) ==
    IF k > Len(pairs) THEN <<>>
    ELSE <<makeOperation("left", pairs[k]), makeOperation("right", pairs[k])>>
             \o flatMapSides(pairs, k + 1)

\* the exported operations' arguments
elongate == makeOperation("left", _elongate)

gyroelongate == mapSide(<<gyroelongPyramid, gyroelongCupola, gyroelongBicupola>>, "left", 1)

\* shorten built from the left sides of the pairs
shorten_left ==
    mapSide(<<_elongate, gyroelongPyramid, gyroelongCupola, gyroelongBicupola>>, "left", 1)

shorten ==
    mapSide(<<_elongate, gyroelongPyramid, gyroelongCupola, gyroelongBicupola>>, "right", 1)

turn == flatMapSides(<<turnPrismatic, turnPyramid, turnCupola, turnBicupola>>, 1)

\* the exported operation of a name applied to a solid of Specs sp: the
\* outcome of the arguments' apply, whose end Specs is the result's Specs
operationApply(name, sp, opts) ==
    CASE name = "elongate" -> opApply(elongate, sp, opts)
      [] name = "gyroelongate" -> combinedApply(gyroelongate, sp, opts)
      [] name = "shorten" -> combinedApply(shorten, sp, opts)
      [] OTHER -> combinedApply(turn, sp, opts)

(***************************************************************************)
(* SpecPrism: the exported prism operations applied one after the other to *)
(* a capstone.                                                             *)
(***************************************************************************)
InitPrism ==
    /\ graph = <<>>
    /\ opArgs = <<>>
    /\ specs = "none"
    /\ geom = "none"
    /\ forme = "none"
    /\ memo = NoMemo
    /\ solid \in Capstones
    /\ trail = <<>>
    /\ count = 0
    /\ inputs = "none"
    /\ call = NoCall
    /\ ret = NoRet

\* operation.apply(solid, opts): the solid becomes the result unless the
\* operation throws
ApplyOperation(name) ==
    \E opts \in CallOpts :
        LET r == operationApply(name, solid, opts)
        IN  /\ call = NoCall
            /\ Len(trail) < MaxSteps
            /\ call' = [op |-> name, specs |-> solid, opts |-> opts, step |-> Len(trail)]
            /\ ret' = IF r.threw THEN Throw(r.val) ELSE Return(r.val.endSpecs)
            /\ solid' = IF r.threw THEN solid ELSE r.val.endSpecs
            /\ trail' = IF r.threw THEN trail
                        ELSE Append(trail, [op |-> name, from |-> solid, opts |-> opts])
            /\ UNCHANGED <<graph, opArgs, specs, geom, forme, memo, count, inputs>>

Elongate == ApplyOperation("elongate")

Gyroelongate == ApplyOperation("gyroelongate")

Shorten == ApplyOperation("shorten")

Turn == ApplyOperation("turn")

NextPrism == Done \/ Elongate \/ Gyroelongate \/ Shorten \/ Turn

SpecPrism == InitPrism /\ [][NextPrism]_vars

SquarePyramid ==
    [shape |-> [base |-> 4, kind |-> "primary", count |-> 1,
                elongation |-> "null", gyrate |-> "none"],
     twist |-> "none"]

GyroelongatedSquarePyramid == withData(SquarePyramid, [elongation |-> "antiprism"])

NoOptions == {Absent, Some(EmptyOpts)}

\* the step made before the current call: operation name, from the Specs sp,
\* without options
CameBy(name, sp) ==
    /\ "step" \in DOMAIN call
    /\ call.step = 1
    /\ trail[1].op = name
    /\ trail[1].from = sp
    /\ trail[1].opts \in NoOptions

\* C14 as stated: from a gyroelongated square pyramid, elongate applies and
\* shorten then returns a Specs equivalent to the original.
C14_ElongateShortenGyroelongated ==
    /\ (call.op = "elongate" /\ call.specs = GyroelongatedSquarePyramid
            /\ call.opts \in NoOptions)
        => ~ret.threw
    /\ (call.op = "shorten" /\ CameBy("elongate", GyroelongatedSquarePyramid)
            /\ call.opts \in NoOptions)
        => (~ret.threw /\ equivalent(solid, GyroelongatedSquarePyramid))

\* C14: elongate does not apply to a gyroelongated square pyramid; from a
\* square pyramid, elongate and then shorten, both without options, return a
\* Specs equal to the original.
C14_ElongateShorten ==
    /\ (call.op = "elongate" /\ call.specs = GyroelongatedSquarePyramid) => ret.threw
    /\ (call.op = "shorten" /\ CameBy("elongate", SquarePyramid)
            /\ call.opts \in NoOptions)
        => (~ret.threw /\ equals(solid, SquarePyramid))

C14_Witness ==
    /\ call.op = "shorten"
    /\ CameBy("elongate", SquarePyramid)
    /\ call.opts \in NoOptions
    /\ Len(trail) = 2
    /\ trail[2].from = withData(SquarePyramid, [elongation |-> "prism"])
    /\ solid = SquarePyramid

CombinedOperations == {"gyroelongate", "shorten", "turn"}

\* the sub-operations an exported combined operation merges
subOperations(name) ==
    CASE name = "gyroelongate" -> gyroelongate
      [] name = "shorten" -> shorten
      [] OTHER -> turn

\* the sub-operations of ops with an entry whose start is equivalent to sp
SubOperationsFor(ops, sp) ==
    {k \in 1..Len(ops) :
        \E j \in 1..Len(ops[k].graph) : equivalent(ops[k].graph[j].start, sp)}

reversed(ops) == [k \in 1..Len(ops) |-> ops[Len(ops) + 1 - k]]

\* the sub-operation (with its entry) the dispatch selects from ops
Selected(ops, sp, opts) ==
    LET d == doWithRightForme(ops, sp, opts)
    IN  IF d = Absent THEN Absent ELSE Some(<<ops[d[1].op], d[1].entry>>)

\* C15: in gyroelongate, shorten and turn, the starts of at most one
\* sub-operation are equivalent to a given Specs, and the dispatch selects the
\* same sub-operation and entry when the sub-operations are listed in the
\* reverse order.
C15_DisjointDomains ==
    /\ \A name \in CombinedOperations :
          Cardinality(SubOperationsFor(subOperations(name), solid)) <= 1
    /\ call.op \in CombinedOperations =>
          /\ Cardinality(SubOperationsFor(subOperations(call.op), call.specs)) <= 1
          /\ Selected(subOperations(call.op), call.specs, call.opts)
               = Selected(reversed(subOperations(call.op)), call.specs, call.opts)

C15_Witness ==
    /\ call.op = "turn"
    /\ ~ret.threw
    /\ SubOperationsFor(turn, call.specs) = {6}
    /\ Selected(turn, call.specs, call.opts) # Absent

(***************************************************************************)
(* SpecBicupola: the entries of a bicupola pair's graph are resolved.      *)
(***************************************************************************)
InitBicupola ==
    /\ graph \in {gyroelongBicupola, turnBicupola}
    /\ opArgs = <<>>
    /\ specs = "none"
    /\ geom = "none"
    /\ forme = "none"
    /\ memo = NoMemo
    /\ solid = "none"
    /\ trail = <<>>
    /\ count = 0
    /\ inputs = "none"
    /\ call = NoCall
    /\ ret = NoRet

\* the Specs on either side of the graph
GraphSpecs == {graph[i][side] : i \in 1..Len(graph), side \in Sides}

GetEntryOf ==
    \E side \in Sides, sp \in GraphSpecs, opts \in CallOpts :
        /\ call = NoCall
        /\ call' = [op |-> "getEntry", side |-> side, specs |-> sp, opts |-> opts]
        /\ ret' = getEntry(graph, side, sp, opts)
        /\ UNCHANGED <<graph, opArgs, specs, geom, forme, memo, solid, trail, count, inputs>>

GetOppositeOf ==
    \E side \in Sides, sp \in GraphSpecs, opts \in CallOpts :
        /\ call = NoCall
        /\ call' = [op |-> "getOpposite", side |-> side, specs |-> sp, opts |-> opts]
        /\ ret' = getOpposite(graph, side, sp, opts)
        /\ UNCHANGED <<graph, opArgs, specs, geom, forme, memo, solid, trail, count, inputs>>

NextBicupola == Done \/ GetEntryOf \/ GetOppositeOf

SpecBicupola == InitBicupola /\ [][NextBicupola]_vars

\* the left elongation the graph was made for
LeftElongation == graph[1].left.shape.elongation

EligibleBicupolae ==
    {s \in Capstones : /\ isSecondary(s) /\ ~isDigonal(s) /\ isBi(s)
                       /\ s.shape.elongation = LeftElongation}

EntriesFrom(b) == {i \in 1..Len(graph) : graph[i].left = b}

Antiprismatic(b, t) == withData(b, [elongation |-> "antiprism", twist |-> t])

\* the entry the call names: its right Specs with its right option
NamedEntries ==
    {i \in 1..Len(graph) :
        /\ call.specs = graph[i].right
        /\ call.opts = Some(graph[i].options[1].right)}

\* C17: each eligible bicupola has one entry per twist t, with left option t,
\* right option the opposite twist and right Specs the antiprism-elongated
\* bicupola twisted t (gyro) or the opposite of t (ortho); its two entries
\* have different right Specs, and a right Specs resolved with its right
\* option leads back to the bicupola.
C17_BicupolaEntries ==
    /\ {graph[i].left : i \in 1..Len(graph)} = EligibleBicupolae
    /\ \A b \in EligibleBicupolae :
          /\ \A t \in Twists :
                \E i \in EntriesFrom(b) :
                    /\ \A j \in EntriesFrom(b) :
                          graph[j].options[1].left = TwistOpts(t) => j = i
                    /\ graph[i].options[1].left = TwistOpts(t)
                    /\ graph[i].options[1].right = TwistOpts(oppositeTwist(t))
                    /\ graph[i].right =
                          Antiprismatic(b, IF isGyro(b) THEN t ELSE oppositeTwist(t))
          /\ Cardinality(EntriesFrom(b)) = 2
          /\ \A i, j \in EntriesFrom(b) : i # j => graph[i].right # graph[j].right
    /\ (call.op \in {"getEntry", "getOpposite"} /\ call.side = "right"
            /\ NamedEntries # {})
        => /\ ~ret.threw
           /\ call.op = "getEntry" => ret.val \in NamedEntries
           /\ call.op = "getOpposite" =>
                 \E i \in NamedEntries : ret.val = graph[i].left

C17_Witness ==
    /\ call.op = "getOpposite"
    /\ call.side = "right"
    /\ NamedEntries # {}
    /\ ~ret.threw
    /\ ~isGyro(ret.val)
    /\ call.specs = Antiprismatic(ret.val, "left")
    /\ call.opts = Some(TwistOpts("left"))

(***************************************************************************)
(* OpPair.apply followed through the geometry.  Poses, aligned geometries  *)
(* and moved vertices are terms naming what they were computed from.       *)
(***************************************************************************)
\* getGeometry(specs): the canonical geometry of a Specs
getGeometry(sp) == [vertices |-> <<"canonical", sp>>]

\* createForme(specs, geom)
createForme(sp, g) == [specs |-> sp, geom |-> g]

\* inputs.getPose(forme, options)
getPose(f, options) == <<"pose", f, options>>

\* alignPolyhedron(geom, pose1, pose2): geom moved from pose1 onto pose2
alignPolyhedron(g, pose1, pose2) == [vertices |-> <<"aligned", g.vertices, pose1, pose2>>]

\* geom.withVertices(vertices)
withVertices(g, vertices) == [g EXCEPT !.vertices = vertices]

defaultGetter(f) == f.geom.vertices

\* inputs.toLeft / inputs.toRight, defaultGetter when the pair defines none
toSide(inp, side, f, options, result) ==
    IF inp[IF side = "left" THEN "toLeft" ELSE "toRight"]
    THEN <<"moved", side, f, options, result>>
    ELSE defaultGetter(f)

\* the Specs a middle getter returns for an entry
Intermediate == [shape |-> "M", twist |-> "none"]

getMiddle(entry) == Intermediate

\* OpPair.apply taking the start from the mover to the opposite side and the
\* end from the mover to the side
applyGeometry_swapped(inp, g, side, s, opts) ==
    LET e == getEntry(g, side, s.specs, opts)
    IN  IF e.threw THEN e
        ELSE LET entry == g[e.val]
                 options == IF entry.options = Absent
                            THEN [left |-> EmptyOpts, right |-> EmptyOpts]
                            ELSE entry.options[1]
                 solidForme == createForme(s.specs, s.geom)
                 startPose == getPose(solidForme, options)
                 endSide == oppositeSide(side)
                 endSpecs == entry[endSide]
                 endGeom == getGeometry(endSpecs)
                 alignedEnd == alignPolyhedron(endGeom,
                                   getPose(createForme(endSpecs, endGeom), options),
                                   startPose)
                 middleSolid == createForme(getMiddle(entry), getGeometry(getMiddle(entry)))
                 alignedInter == alignPolyhedron(middleSolid.geom,
                                     getPose(middleSolid, options), startPose)
                 middle == IF inp.middle \in Sides
                           THEN IF inp.middle = side THEN solidForme
                                ELSE createForme(endSpecs, alignedEnd)
                           ELSE createForme(middleSolid.specs, alignedInter)
             IN  Return([animationData |->
                            [start |-> withVertices(middle.geom,
                                           toSide(inp, endSide, middle, options, s.specs)),
                             endVertices |-> toSide(inp, side, middle, options, endSpecs)],
                         result |-> alignedEnd])

\* OpPair.apply(side, solid, opts): the animation data and the result
applyGeometry(inp, g, side, s, opts) ==
    LET e == getEntry(g, side, s.specs, opts)
    IN  IF e.threw THEN e
        ELSE LET entry == g[e.val]
                 options == IF entry.options = Absent
                            THEN [left |-> EmptyOpts, right |-> EmptyOpts]
                            ELSE entry.options[1]
                 solidForme == createForme(s.specs, s.geom)
                 startPose == getPose(solidForme, options)
                 endSide == oppositeSide(side)
                 endSpecs == entry[endSide]
                 endGeom == getGeometry(endSpecs)
                 alignedEnd == alignPolyhedron(endGeom,
                                   getPose(createForme(endSpecs, endGeom), options),
                                   startPose)
                 middleSolid == createForme(getMiddle(entry), getGeometry(getMiddle(entry)))
                 alignedInter == alignPolyhedron(middleSolid.geom,
                                     getPose(middleSolid, options), startPose)
                 middle == IF inp.middle \in Sides
                           THEN IF inp.middle = side THEN solidForme
                                ELSE createForme(endSpecs, alignedEnd)
                           ELSE createForme(middleSolid.specs, alignedInter)
             IN  Return([animationData |->
                            [start |-> withVertices(middle.geom,
                                           toSide(inp, side, middle, options, s.specs)),
                             endVertices |-> toSide(inp, endSide, middle, options, endSpecs)],
                         result |-> alignedEnd])

(***************************************************************************)
(* SpecApply: apply is called on the pairs of every declaration.           *)
(***************************************************************************)
\* OpPairInput: middle is a Side or a getter; toLeft and toRight are optional
OpPairInputs == [middle : Sides \cup {"getter"}, toLeft : BOOLEAN, toRight : BOOLEAN]

\* the solids apply is called with: a Specs over its canonical geometry or
\* over a geometry of its own
Solids ==
    {createForme(sp, getGeometry(sp)) : sp \in SpecsSet}
        \cup {createForme(sp, [vertices |-> <<"own", sp>>]) : sp \in SpecsSet}

InitApply ==
    /\ graph \in SeqsUpTo(GraphEntries, MaxPairLen)
    /\ opArgs = <<>>
    /\ specs = "none"
    /\ geom = "none"
    /\ forme = "none"
    /\ memo = NoMemo
    /\ solid = "none"
    /\ trail = <<>>
    /\ count = 0
    /\ inputs \in OpPairInputs
    /\ call = NoCall
    /\ ret = NoRet

ApplyGeometry ==
    \E side \in Sides, s \in Solids, opts \in CallOpts :
        /\ call = NoCall
        /\ call' = [op |-> "apply", side |-> side, solid |-> s, opts |-> opts]
        /\ ret' = applyGeometry(inputs, graph, side, s, opts)
        /\ UNCHANGED <<graph, opArgs, specs, geom, forme, memo, solid, trail, count, inputs>>

NextApply == Done \/ ApplyGeometry

SpecApply == InitApply /\ [][NextApply]_vars

\* the entry the call resolved, its options or the default ones
AppliedEntry == graph[getEntry(graph, call.side, call.solid.specs, call.opts).val]

AppliedOptions ==
    IF AppliedEntry.options = Absent THEN [left |-> EmptyOpts, right |-> EmptyOpts]
    ELSE AppliedEntry.options[1]

EndSpecs == AppliedEntry[oppositeSide(call.side)]

\* the end's canonical geometry moved from its own pose onto the start pose
AlignedEnd ==
    alignPolyhedron(getGeometry(EndSpecs),
                    getPose(createForme(EndSpecs, getGeometry(EndSpecs)), AppliedOptions),
                    getPose(call.solid, AppliedOptions))

SideMiddle ==
    IF inputs.middle = call.side THEN call.solid ELSE createForme(EndSpecs, AlignedEnd)

OnlyToLeft == [middle |-> "right", toLeft |-> TRUE, toRight |-> FALSE]

\* C16: result is the end's canonical geometry aligned onto the start pose;
\* with a Side as middle, the middle is the input solid when middle is the
\* side applied from and the end Specs over the aligned end otherwise, start
\* is the middle with the vertices of the mover to that side, endVertices
\* those of the mover to the opposite side, an undefined mover giving the
\* middle's own vertices; with middle right and only toLeft, start has the
\* input's vertices from the right and endVertices are result's from the left.
C16_ApplyGeometry ==
    (call.op = "apply" /\ ~ret.threw) =>
        /\ ret.val.result = AlignedEnd
        /\ inputs.middle \in Sides =>
              /\ ret.val.animationData.start =
                    withVertices(SideMiddle.geom,
                        toSide(inputs, call.side, SideMiddle, AppliedOptions,
                               call.solid.specs))
              /\ ret.val.animationData.endVertices =
                    toSide(inputs, oppositeSide(call.side), SideMiddle,
                           AppliedOptions, EndSpecs)
        /\ (inputs = OnlyToLeft /\ call.side = "right") =>
              ret.val.animationData.start.vertices = call.solid.geom.vertices
        /\ (inputs = OnlyToLeft /\ call.side = "left") =>
              ret.val.animationData.endVertices = ret.val.result.vertices

C16_Witness ==
    /\ call.op = "apply"
    /\ ~ret.threw
    /\ inputs = OnlyToLeft
    /\ call.side = "left"
    /\ call.solid.geom # getGeometry(call.solid.specs)
    /\ ret.val.animationData.endVertices = ret.val.result.vertices
    /\ ret.val.animationData.start.vertices # ret.val.result.vertices

(***************************************************************************)
(* cutPasteUtils: inc and dec on a Count.                                  *)
(***************************************************************************)
\* Count: the values of Composite's augmented field
CountValues == 0..3

\* inc without the test for the highest Count
inc_unchecked(c) == Return(c + 1)

inc(c) ==
    IF c = 3 THEN Throw("Count is too high to increment") ELSE Return(c + 1)

dec(c) ==
    IF c = 0 THEN Throw("Count is too low to decrement") ELSE Return(c - 1)

InitCount ==
    /\ graph = <<>>
    /\ opArgs = <<>>
    /\ specs = "none"
    /\ geom = "none"
    /\ forme = "none"
    /\ memo = NoMemo
    /\ solid = "none"
    /\ trail = <<>>
    /\ count \in CountValues
    /\ inputs = "none"
    /\ call = NoCall
    /\ ret = NoRet

\* count = inc(count), the Count kept when inc throws
Inc ==
    /\ call = NoCall
    /\ Len(trail) < MaxCalls
    /\ call' = [op |-> "inc", count |-> count, step |-> Len(trail)]
    /\ ret' = inc(count)
    /\ count' = IF inc(count).threw THEN count ELSE inc(count).val
    /\ trail' = IF inc(count).threw THEN trail
                ELSE Append(trail, [op |-> "inc", from |-> count])
    /\ UNCHANGED <<graph, opArgs, specs, geom, forme, memo, solid, inputs>>

\* count = dec(count), the Count kept when dec throws
Dec ==
    /\ call = NoCall
    /\ Len(trail) < MaxCalls
    /\ call' = [op |-> "dec", count |-> count, step |-> Len(trail)]
    /\ ret' = dec(count)
    /\ count' = IF dec(count).threw THEN count ELSE dec(count).val
    /\ trail' = IF dec(count).threw THEN trail
                ELSE Append(trail, [op |-> "dec", from |-> count])
    /\ UNCHANGED <<graph, opArgs, specs, geom, forme, memo, solid, inputs>>

NextCount == Done \/ Inc \/ Dec

SpecCount == InitCount /\ [][NextCount]_vars

\* the call was made right after a successful call of op
RightAfter(op) == call.step >= 1 /\ trail[call.step].op = op

\* C19: inc throws on 3 and else adds one, dec throws on 0 and else takes one
\* off; dec after a successful inc, and inc after a successful dec, succeed
\* and give the Count back; the Count stays within 0..3.
C19_IncDec ==
    /\ count \in CountValues
    /\ call.op = "inc" =>
          /\ ret.threw <=> call.count = 3
          /\ ~ret.threw => ret.val = call.count + 1
          /\ RightAfter("dec") => (~ret.threw /\ count = trail[call.step].from)
    /\ call.op = "dec" =>
          /\ ret.threw <=> call.count = 0
          /\ ~ret.threw => ret.val = call.count - 1
          /\ RightAfter("inc") => (~ret.threw /\ count = trail[call.step].from)

C19_Witness ==
    /\ call.op = "dec"
    /\ RightAfter("inc")
    /\ trail[call.step].from = 2
    /\ call.count = 3
    /\ count = 2

(***************************************************************************)
(* cutPasteUtils.combineOps.  A sub-operation is the set of Specs its      *)
(* canApplyTo accepts; its apply and getResult answer with its name and    *)
(* what they were called with, and fail on a Specs it does not accept.     *)
(***************************************************************************)
CapChoices == {"cap1", "cap2"}

subCanApplyTo(op, sp) == sp \in op.domain

subCall(op, method, f, options) ==
    IF subCanApplyTo(op, f.specs)
    THEN Return([by |-> op.name, method |-> method, forme |-> f, options |-> options])
    ELSE Throw("sub-operation cannot apply")

\* combineOps(ops).canApplyTo
cutPasteCanApplyTo(ops, sp) == \E k \in 1..Len(ops) : subCanApplyTo(ops[k], sp)

\* getOp taking the last sub-operation that can apply
getOp_last(ops, sp, k) ==
    LET able == {j \in k..Len(ops) : subCanApplyTo(ops[j], sp)}
    IN  IF able = {} THEN Throw("Could not apply any operations")
        ELSE Return(CHOOSE j \in able : \A i \in able : i <= j)

\* getOp: ops.find from sub-operation k on
RECURSIVE getOp(_, _, _)
getOp(ops, sp, k) ==
    IF k > Len(ops) THEN Throw("Could not apply any operations")
    ELSE IF subCanApplyTo(ops[k], sp) THEN Return(k)
    ELSE getOp(ops, sp, k + 1)

\* combineOps(ops).apply
cutPasteApply(ops, f, options) ==
    LET entry == getOp(ops, f.specs, 1)
    IN  IF entry.threw THEN entry ELSE subCall(ops[entry.val], "apply", f, options)

\* combineOps(ops).getResult
cutPasteGetResult(ops, f, options) ==
    LET entry == getOp(ops, f.specs, 1)
    IN  IF entry.threw THEN entry ELSE subCall(ops[entry.val], "getResult", f, options)

InitCutPaste ==
    /\ graph = <<>>
    /\ \E domains \in SeqsUpTo(SUBSET SpecsSet, MaxCombined) :
          opArgs = [k \in 1..Len(domains) |-> [name |-> k, domain |-> domains[k]]]
    /\ specs = "none"
    /\ geom = "none"
    /\ forme = "none"
    /\ memo = NoMemo
    /\ solid = "none"
    /\ trail = <<>>
    /\ count = 0
    /\ inputs = "none"
    /\ call = NoCall
    /\ ret = NoRet

CutPasteCanApplyTo ==
    \E sp \in SpecsSet :
        /\ call = NoCall
        /\ call' = [op |-> "cutPaste.canApplyTo", specs |-> sp]
        /\ ret' = Return(cutPasteCanApplyTo(opArgs, sp))
        /\ UNCHANGED <<graph, opArgs, specs, geom, forme, memo, solid, trail, count, inputs>>

CutPasteApply ==
    \E sp \in SpecsSet, cap \in CapChoices :
        /\ call = NoCall
        /\ call' = [op |-> "cutPaste.apply", specs |-> sp, options |-> [cap |-> cap]]
        /\ ret' = cutPasteApply(opArgs, [specs |-> sp], [cap |-> cap])
        /\ UNCHANGED <<graph, opArgs, specs, geom, forme, memo, solid, trail, count, inputs>>

CutPasteGetResult ==
    \E sp \in SpecsSet, cap \in CapChoices :
        /\ call = NoCall
        /\ call' = [op |-> "cutPaste.getResult", specs |-> sp, options |-> [cap |-> cap]]
        /\ ret' = cutPasteGetResult(opArgs, [specs |-> sp], [cap |-> cap])
        /\ UNCHANGED <<graph, opArgs, specs, geom, forme, memo, solid, trail, count, inputs>>

NextCutPaste == Done \/ CutPasteCanApplyTo \/ CutPasteApply \/ CutPasteGetResult

SpecCutPaste == InitCutPaste /\ [][NextCutPaste]_vars

\* the sub-operations that can apply to the Specs of the call
Applicable == {k \in 1..Len(opArgs) : call.specs \in opArgs[k].domain}

\* C20: canApplyTo holds exactly when some sub-operation can apply; apply and
\* getResult answer with what the first sub-operation that can apply answers
\* to the same forme and options, and fail exactly when none can.
C20_CutPasteCombine ==
    /\ call.op = "cutPaste.canApplyTo" => (ret.val <=> Applicable # {})
    /\ call.op \in {"cutPaste.apply", "cutPaste.getResult"} =>
          /\ ret.threw <=> Applicable = {}
          /\ ~ret.threw =>
                ret.val = [by |-> Least(Applicable),
                           method |-> IF call.op = "cutPaste.apply" THEN "apply"
                                      ELSE "getResult",
                           forme |-> [specs |-> call.specs],
                           options |-> call.options]

C20_Witness ==
    /\ call.op = "cutPaste.getResult"
    /\ Applicable = {1, 2}
    /\ opArgs[1].domain # opArgs[2].domain
    /\ ~ret.threw
    /\ ret.val.by = 1

====
